---- MODULE Spec2Model ----
(***************************************************************************)
(* Article-to-audio pipeline: the text segmenter (simple-api.py), the URL  *)
(* classifier, the per-domain rate limiter, the error classifier and the   *)
(* /convert and /test handlers of the enhanced server (enhanced-server.py),*)
(* the conversion of simple-api.py with its chunked synthesis and timeout, *)
(* the conversions and article look-ups of the data-lake servers           *)
(* (server.py, cloud-server.py) and the two speech engines of              *)
(* api-server.py.                                                          *)
(*                                                                         *)
(* Strings are sequences.  Article text is a sequence of one-character     *)
(* strings; host names and error texts are sequences of tokens (the labels *)
(* of a host, the words of a message) and a substring test is a test for a *)
(* contiguous run of tokens.                                               *)
(***************************************************************************)
EXTENDS Integers, Sequences, FiniteSets, TLC

VARIABLES
    \* ---- segmenter (simple-api.py chunk_text) ----
    text,            \* the text handed to chunk_text
    max_chunk_size,  \* its max_chunk_size argument
    chunks,          \* the list chunk_text returned
    chunk_pc,        \* "idle" | "call" | "done"
    \* ---- URL classifier (enhanced-server.py) ----
    url,             \* the URL being classified
    classification,  \* what the classifier reported for it
    url_pc,          \* "idle" | "call" | "done"
    \* ---- error classifier (enhanced-server.py categorize_error) ----
    error_msg,       \* the raw error text
    category,        \* the (error_type, user_message, suggestions) returned
    err_pc,          \* "idle" | "call" | "done"
    \* ---- the enhanced server: single-threaded HTTPServer, its handlers ----
    now,             \* time.time(), in seconds
    rate_limits,     \* EnhancedArticleToAudioHandler.rate_limits: domain -> time
    req,             \* per request: endpoint and URL
    pc,              \* per request: where its handler stands
    serving,         \* the request the server's one thread is handling, or 0
    wait_time,       \* per request: wait_time of handle_archive_url (0: none)
    wake_at,         \* per request: earliest return of its time.sleep
    gate_ts,         \* per request: the timestamp its gate call recorded
    fetch_start,     \* per request: when its conversion process was started
    concurrent,      \* per request: it arrived while another was in flight
    \* ---- POST /convert as a whole: do_POST and run_conversion ----
    post,            \* the body of the last POST /convert
    cli,             \* how the converter process ended for it
    response,        \* the JSON response and status sent for it
    \* ---- simple-api.py: convert_article of POST /api/convert ----
    api_req,         \* the request: its type and the content to convert
    api_pc,          \* "new" | "synth" | "fallback" | "done" ("off": idle)
    api_chunks,      \* chunks of generate_edge_tts (empty: content not chunked)
    all_audio,       \* how many chunk files generate_edge_tts has saved
    chunk_files,     \* the *_chunk_i.mp3 files on disk (i counted from 1)
    audio_file,      \* the speech held by the file at audio_path
    last_synth,      \* how the last synthesis call ended
    timed_out,       \* asyncio.wait_for raised TimeoutError
    api_result,      \* the JSON response and status sent
    synth_calls,     \* the edge_tts.Communicate(...).save calls begun, in order
    extract_calls,   \* how many times extract_article_simple was called
    \* ---- server.py, cloud-server.py, api-server.py: the data lake ----
    supabase,        \* the Supabase client was created at start-up
    lake_rows,       \* ids of the rows of the articles table
    lake_req,        \* the last request: what was asked, how collaborators ended
    lake_resp,       \* the response and status sent for it
    \* ---- api-server.py: convert_article and its two speech engines ----
    fb_req,          \* the request: authorization, type, content, speed
    fb_pc,           \* "new" | "primary" | "fallback" | "done" ("off": idle)
    primary_calls,   \* the texts edge_tts.Communicate was created with
    fallback_calls,  \* the texts gTTS was created with
    primary_failed,  \* the try block of generate_audio_edge_tts raised
    fallback_failed, \* generate_audio_gtts raised
    fb_status,       \* the status of the response (0: none yet)
    \* ---- enhanced-server.py: the gate, called by /test and /convert ----
    gate_call,       \* the last call of process_url_with_archives
    recorded_by,     \* per domain: the endpoint whose call wrote its entry
    gate_pc,         \* "ready" | "returned" ("off": idle)
    gate_calls       \* how many calls of the gate have been made

chunkVars == <<text, max_chunk_size, chunks, chunk_pc>>
urlVars == <<url, classification, url_pc>>
errVars == <<error_msg, category, err_pc>>

srvVars == <<now, rate_limits, req, pc, serving, wait_time, wake_at, gate_ts,
             fetch_start, concurrent>>

convVars == <<post, cli, response>>

apiVars == <<api_req, api_pc, api_chunks, all_audio, chunk_files, audio_file,
             last_synth, timed_out, api_result, synth_calls, extract_calls>>

lakeVars == <<supabase, lake_rows, lake_req, lake_resp>>

fbVars == <<fb_req, fb_pc, primary_calls, fallback_calls, primary_failed,
            fallback_failed, fb_status>>

gateVars == <<gate_call, recorded_by, gate_pc, gate_calls>>

vars == <<chunkVars, urlVars, errVars, srvVars, convVars, apiVars, lakeVars,
          fbVars, gateVars>>

\* What the actions of one part of the model leave alone.
notChunk ==
    <<urlVars, errVars, srvVars, convVars, apiVars, lakeVars, fbVars,
      gateVars>>
notUrl ==
    <<chunkVars, errVars, srvVars, convVars, apiVars, lakeVars, fbVars,
      gateVars>>
notErr ==
    <<chunkVars, urlVars, srvVars, convVars, apiVars, lakeVars, fbVars,
      gateVars>>
notSrv ==
    <<chunkVars, urlVars, errVars, convVars, apiVars, lakeVars, fbVars,
      gateVars>>
notConv ==
    <<chunkVars, urlVars, errVars, apiVars, lakeVars, fbVars, gateVars>>
notApi == <<chunkVars, urlVars, errVars, srvVars, convVars, lakeVars, fbVars, gateVars>>
notLake == <<chunkVars, urlVars, errVars, srvVars, convVars, apiVars, fbVars, gateVars>>
notFb ==
    <<chunkVars, urlVars, errVars, srvVars, convVars, apiVars, lakeVars,
      gateVars>>
notGate ==
    <<chunkVars, urlVars, errVars, convVars, apiVars, lakeVars, fbVars>>

----------------------------------------------------------------------------
\* Bounds of the model.
MaxTextLen == 5
MaxChunkSize == 6
MaxHostLabels == 4
MaxMsgWords == 3
NumReqs == 3
MaxTime == 60
TickStep == 15
MaxSentences == 4
MaxRows == 3
MaxGateCalls == 3

----------------------------------------------------------------------------
\* Generic sequence helpers.

\* All sequences over S of length 0..n.
SeqsUpTo(S, n) == UNION {[1..k -> S] : k \in 0..n}

\* Python's `a in b` for strings: a occurs in b as a contiguous run.
Contains(b, a) ==
    \E i \in 0..(Len(b) - Len(a)) : SubSeq(b, i + 1, i + Len(a)) = a

\* str.lower() on one token: the tokens of the model that have capitals.
LowerToken(w) ==
    CASE w = "Archive" -> "archive"
      [] w = "NYTimes" -> "nytimes"
      [] w = "Timeout" -> "timeout"
      [] w = "PAYWALL" -> "paywall"
      [] w = "Rate" -> "rate"
      [] w = "Forbidden" -> "forbidden"
      [] OTHER -> w

\* str.lower() on a string of tokens.
Lower(s) == [i \in 1..Len(s) |-> LowerToken(s[i])]

RECURSIVE Concat(_)
\* The concatenation of a list of strings.
Concat(ss) == IF ss = <<>> THEN <<>> ELSE Head(ss) \o Concat(Tail(ss))

----------------------------------------------------------------------------
\* The segmenter: chunk_text(text, max_chunk_size).

\* The characters article text is drawn from: a letter, the full stop the
\* code splits on, a blank, and a sentence terminator the code does not
\* split on.
Chars == {"a", ".", " ", "!"}

IsSpace(c) == c = " "

RECURSIVE LStrip(_)
LStrip(s) == IF s # <<>> /\ IsSpace(Head(s)) THEN LStrip(Tail(s)) ELSE s

RECURSIVE RStrip(_)
RStrip(s) ==
    IF s # <<>> /\ IsSpace(s[Len(s)]) THEN RStrip(SubSeq(s, 1, Len(s) - 1)) ELSE s

\* str.strip(): leading and trailing whitespace removed.
Strip(s) == LStrip(RStrip(s))

\* The separator of text.split('. ') and the suffix re-added to a sentence.
DotSpace == <<".", " ">>

RECURSIVE SplitFrom(_, _)
\* str.split('. ') scanning left to right; cur is the piece being read.
SplitFrom(s, cur) ==
    IF s = <<>> THEN <<cur>>
    ELSE IF Len(s) >= 2 /\ SubSeq(s, 1, 2) = DotSpace
         THEN <<cur>> \o SplitFrom(SubSeq(s, 3, Len(s)), <<>>)
         ELSE SplitFrom(Tail(s), Append(cur, Head(s)))

SplitSentences(s) == SplitFrom(s, <<>>)

RECURSIVE ChunkLoop(_, _, _, _)
\* The for loop of chunk_text and the flush after it.
ChunkLoop(sentences, acc, current_chunk, maxSize) ==
    IF sentences = <<>>
    THEN IF current_chunk # <<>> THEN Append(acc, Strip(current_chunk)) ELSE acc
    ELSE LET sentence == Head(sentences)
             grown == current_chunk \o sentence \o DotSpace
         IN  IF Len(grown) <= maxSize
             THEN ChunkLoop(Tail(sentences), acc, grown, maxSize)
             ELSE ChunkLoop(Tail(sentences),
                            IF current_chunk # <<>>
                            THEN Append(acc, Strip(current_chunk)) ELSE acc,
                            sentence \o DotSpace, maxSize)

chunk_text(t, maxSize) == ChunkLoop(SplitSentences(t), <<>>, <<>>, maxSize)

ChunkIdle ==
    /\ text = <<>>
    /\ max_chunk_size = 0
    /\ chunks = <<>>
    /\ chunk_pc = "idle"

ChunkInit ==
    /\ text \in SeqsUpTo(Chars, MaxTextLen)
    /\ max_chunk_size \in 1..MaxChunkSize
    /\ chunks = <<>>
    /\ chunk_pc = "call"

\* One call of chunk_text on the drawn input.
ChunkCall ==
    /\ chunk_pc = "call"
    /\ chunks' = chunk_text(text, max_chunk_size)
    /\ chunk_pc' = "done"
    /\ UNCHANGED <<text, max_chunk_size, notChunk>>

----------------------------------------------------------------------------
\* Claims about the segmenter.

\* C4: for every text with len(text) <= maxSize, chunk_text(text, maxSize)
\* returns exactly the one-element list [text], the text unchanged.
C4_ShortTextUnchanged ==
    (chunk_pc = "done" /\ Len(text) <= max_chunk_size) => chunks = <<text>>

\* Text with every blank removed: what is left of a text once the
\* whitespace at segment boundaries is ignored.
NoBlanks(s) == SelectSeq(s, LAMBDA c : ~IsSpace(c))

\* C5: whenever chunk_text splits a text into several segments, the
\* segments concatenated in order give back the original text, up to the
\* whitespace at the segment boundaries: no character is lost, none added.
\* Stated in its weakest form: even with all whitespace ignored, the
\* characters are the same.
C5_ConcatReproducesText ==
    (chunk_pc = "done" /\ Len(chunks) > 1)
        => NoBlanks(Concat(chunks)) = NoBlanks(text)

\* s holds more than one sentence: somewhere inside it a word is ended by
\* a sentence terminator and whitespace, and another word follows.
IsTerminator(c) == c \in {".", "!", "?"}
HoldsSeveralSentences(s) ==
    \E i \in 2..(Len(s) - 2) :
        /\ s[i - 1] = "a"
        /\ IsTerminator(s[i])
        /\ IsSpace(s[i + 1])
        /\ s[i + 2] = "a"

\* C6: no segment is longer than maxSize, except a segment that is one
\* single sentence (text ended by '.', '!' or '?' followed by whitespace).
C6_SegmentsBounded ==
    chunk_pc = "done" =>
        \A i \in 1..Len(chunks) :
            Len(chunks[i]) > max_chunk_size => ~HoldsSeveralSentences(chunks[i])

----------------------------------------------------------------------------
\* The URL classifier: is_archive_url, is_paywall_site and the branch
\* process_url_with_archives takes.  A URL is a scheme flag and a host (a
\* sequence of labels, "web.archive.org" = <<"web", "archive", "org">>);
\* path and query play no part in the classification.

archive_domains ==
    { <<"archive", "ph">>, <<"archive", "today">>, <<"archive", "is">>,
      <<"web", "archive", "org">>, <<"archive", "org">>,
      <<"12ft", "io">>, <<"outline", "com">> }

paywall_domains ==
    { <<"nytimes", "com">>, <<"wsj", "com">>, <<"ft", "com">>,
      <<"economist", "com">>, <<"washingtonpost", "com">>,
      <<"bloomberg", "com">>, <<"reuters", "com">> }

\* urlparse(url).netloc.lower(): empty for a URL written without a scheme.
Netloc(u) == IF u.has_scheme THEN Lower(u.host) ELSE <<>>

is_archive_url(u) == \E d \in archive_domains : Contains(Netloc(u), d)

is_paywall_site(domain) == \E d \in paywall_domains : Contains(domain, d)

\* The branch of process_url_with_archives a URL takes: the archive test
\* comes first and returns.
ProcessBranch(u) ==
    IF is_archive_url(u) THEN "archive"
    ELSE IF is_paywall_site(Netloc(u)) THEN "paywall"
    ELSE "ordinary"

\* The paywall test without the archive guard.
PaywallDetected_Unguarded(u) == is_paywall_site(Netloc(u))

\* 'paywall_detected' of test_article_extraction.
PaywallDetected(u) ==
    IF ~is_archive_url(u) THEN is_paywall_site(Netloc(u)) ELSE FALSE

\* 'archive_used' of test_article_extraction (the processed URL is the URL).
ArchiveUsed(u) == is_archive_url(u)

HostLabels == {"archive", "Archive", "ph", "org", "web", "nytimes", "com"}

Urls == [has_scheme : BOOLEAN, host : SeqsUpTo(HostLabels, MaxHostLabels)]

NoUrl == [has_scheme |-> FALSE, host |-> <<>>]
NoClassification ==
    [branch |-> "none", archive_used |-> FALSE, paywall_detected |-> FALSE]

UrlIdle ==
    /\ url = NoUrl
    /\ classification = NoClassification
    /\ url_pc = "idle"

UrlInit ==
    /\ url \in Urls
    /\ classification = NoClassification
    /\ url_pc = "call"

\* The classification of the drawn URL, as /convert and /test report it.
UrlClassify ==
    /\ url_pc = "call"
    /\ classification' = [branch |-> ProcessBranch(url),
                          archive_used |-> ArchiveUsed(url),
                          paywall_detected |-> PaywallDetected(url)]
    /\ url_pc' = "done"
    /\ UNCHANGED <<url, notUrl>>

----------------------------------------------------------------------------
\* The error classifier: categorize_error.  An error text is a sequence of
\* words; a term of the code is a word or a run of words.

network_terms == { <<"connection">>, <<"timeout">>, <<"network">>, <<"dns">> }
paywall_terms == { <<"paywall">>, <<"subscription">>, <<"premium">>, <<"login">> }
content_terms == { <<"too", "short">>, <<"no", "content">>, <<"content", "found">> }
rate_limit_terms == { <<"rate", "limit">>, <<"too", "many", "requests">>, <<"429">> }
access_terms == { <<"access", "denied">>, <<"forbidden">>, <<"403">>, <<"blocked">> }
not_found_terms == { <<"not", "found">>, <<"404">>, <<"does", "not", "exist">> }
audio_terms == { <<"voice">>, <<"tts">>, <<"audio">>, <<"edge-tts">> }

\* any(term in error_msg_lower for term in terms)
AnyTermIn(terms, msg) == \E t \in terms : Contains(msg, t)

Category(kind, message, suggestions) ==
    [error_type |-> kind, user_message |-> message, suggestions |-> suggestions]

NetworkCategory ==
    Category("network_error",
        "Unable to connect to the website. Please check your internet connection.",
        <<"Check your internet connection", "Try again in a few moments",
          "The website might be temporarily down">>)
PaywallCategory ==
    Category("paywall_error",
        "This article requires a subscription or login to access.",
        <<"Try using an archive link (archive.today, web.archive.org)",
          "Check if you have a subscription",
          "Look for a free version of the article">>)
ContentCategory ==
    Category("content_error",
        "Unable to extract readable content from this page.",
        <<"Make sure this is an article page, not a homepage",
          "Try a different article",
          "The page might be loading content dynamically">>)
RateLimitCategory ==
    Category("rate_limit_error",
        "Too many requests. Please wait a moment before trying again.",
        <<"Wait 30 seconds and try again", "The website is limiting requests">>)
AccessCategory ==
    Category("access_error",
        "Access to this website is currently blocked or restricted.",
        <<"The website might be blocking automated requests",
          "Try a different article", "Check if the URL is correct">>)
NotFoundCategory ==
    Category("not_found_error",
        "The article could not be found. The link might be broken.",
        <<"Check if the URL is correct",
          "The article might have been moved or deleted",
          "Try searching for the article on the website">>)
AudioCategory ==
    Category("audio_error",
        "There was a problem generating the audio.",
        <<"Try a different voice", "Check your internet connection",
          "The text-to-speech service might be temporarily unavailable">>)
UnknownCategory ==
    Category("unknown_error",
        "An unexpected error occurred. Please try again.",
        <<"Try refreshing the page", "Check if the URL is a valid article",
          "The issue might be temporary">>)

\* categorize_error with the rate-limit test moved ahead of the paywall
\* test (the order run_conversion uses for the converter's output).
categorize_error_RateFirst(msg) ==
    LET error_msg_lower == Lower(msg)
    IN  IF AnyTermIn(network_terms, error_msg_lower) THEN NetworkCategory
        ELSE IF AnyTermIn(rate_limit_terms, error_msg_lower) THEN RateLimitCategory
        ELSE IF AnyTermIn(paywall_terms, error_msg_lower) THEN PaywallCategory
        ELSE IF AnyTermIn(content_terms, error_msg_lower) THEN ContentCategory
        ELSE IF AnyTermIn(access_terms, error_msg_lower) THEN AccessCategory
        ELSE IF AnyTermIn(not_found_terms, error_msg_lower) THEN NotFoundCategory
        ELSE IF AnyTermIn(audio_terms, error_msg_lower) THEN AudioCategory
        ELSE UnknownCategory

\* categorize_error without its catch-all: the last test becomes the else.
categorize_error_NoCatchAll(msg) ==
    LET error_msg_lower == Lower(msg)
    IN  IF AnyTermIn(network_terms, error_msg_lower) THEN NetworkCategory
        ELSE IF AnyTermIn(paywall_terms, error_msg_lower) THEN PaywallCategory
        ELSE IF AnyTermIn(content_terms, error_msg_lower) THEN ContentCategory
        ELSE IF AnyTermIn(rate_limit_terms, error_msg_lower) THEN RateLimitCategory
        ELSE IF AnyTermIn(access_terms, error_msg_lower) THEN AccessCategory
        ELSE IF AnyTermIn(not_found_terms, error_msg_lower) THEN NotFoundCategory
        ELSE AudioCategory

categorize_error(msg) ==
    LET error_msg_lower == Lower(msg)
    IN  IF AnyTermIn(network_terms, error_msg_lower) THEN NetworkCategory
        ELSE IF AnyTermIn(paywall_terms, error_msg_lower) THEN PaywallCategory
        ELSE IF AnyTermIn(content_terms, error_msg_lower) THEN ContentCategory
        ELSE IF AnyTermIn(rate_limit_terms, error_msg_lower) THEN RateLimitCategory
        ELSE IF AnyTermIn(access_terms, error_msg_lower) THEN AccessCategory
        ELSE IF AnyTermIn(not_found_terms, error_msg_lower) THEN NotFoundCategory
        ELSE IF AnyTermIn(audio_terms, error_msg_lower) THEN AudioCategory
        ELSE UnknownCategory

\* The words error texts are drawn from: words of terms of the kinds, some
\* capitalised, and a word of no term.
MsgWords ==
    { "timeout", "Timeout", "PAYWALL", "too", "short", "Rate", "limit",
      "Forbidden", "not", "found", "audio", "failed" }

NoCategory == Category("none", "", <<>>)

ErrIdle ==
    /\ error_msg = <<>>
    /\ category = NoCategory
    /\ err_pc = "idle"

ErrInit ==
    /\ error_msg \in SeqsUpTo(MsgWords, MaxMsgWords)
    /\ category = NoCategory
    /\ err_pc = "call"

\* One call of categorize_error on the drawn text.
ErrCategorize ==
    /\ err_pc = "call"
    /\ category' = categorize_error(error_msg)
    /\ err_pc' = "done"
    /\ UNCHANGED <<error_msg, notErr>>

----------------------------------------------------------------------------
\* The rate limiter (handle_archive_url) and the server that runs it.
\* run_enhanced_server serves with http.server.HTTPServer: one thread, one
\* request at a time; a connection that arrives while a handler runs waits
\* in the listen queue until that handler has returned.

\* min_delay of handle_archive_url, by archive service.
StrictDelay == 45
LenientDelay == 10
DefaultDelay == 30

\* min_delay without the default tier.
MinDelay_NoDefault(domain) ==
    IF Contains(domain, <<"archive", "ph">>) THEN StrictDelay ELSE LenientDelay

MinDelay(domain) ==
    IF Contains(domain, <<"archive", "ph">>) THEN StrictDelay
    ELSE IF Contains(domain, <<"web", "archive", "org">>) THEN LenientDelay
    ELSE DefaultDelay

\* handle_archive_url sleeping for the time elapsed, not the time left.
WaitTime_Elapsed(domain, rl, t) ==
    IF domain \in DOMAIN rl
    THEN LET last_request == rl[domain]
             elapsed == t - last_request
             min_delay == MinDelay(domain)
         IN  IF elapsed < min_delay THEN elapsed ELSE 0
    ELSE 0

\* handle_archive_url without the `if domain in self.rate_limits` test: a
\* domain never seen counts as seen at the time of the call.
WaitTime_NoEntryCheck(domain, rl, t) ==
    LET last_request == IF domain \in DOMAIN rl THEN rl[domain] ELSE t
        elapsed == t - last_request
        min_delay == MinDelay(domain)
    IN  IF elapsed < min_delay THEN min_delay - elapsed ELSE 0

\* wait_time of handle_archive_url for a call that reads the clock at t
\* with the map rl; 0 when the call does not sleep.
WaitTime(domain, rl, t) ==
    IF domain \in DOMAIN rl
    THEN LET last_request == rl[domain]
             elapsed == t - last_request
             min_delay == MinDelay(domain)
         IN  IF elapsed < min_delay THEN min_delay - elapsed ELSE 0
    ELSE 0

\* The tracker replaced by a map that holds the one domain of the call.
RecordRequest_Fresh(rl, domain, t) == [d \in {domain} |-> t]

\* self.rate_limits[domain] = time.time()
RecordRequest(rl, domain, t) ==
    [d \in DOMAIN rl \cup {domain} |-> IF d = domain THEN t ELSE rl[d]]

ReqIds == 1..NumReqs
\* No time recorded yet (all times are >= 0).
None == 0 - 1
NoReq == [endpoint |-> "none", url |-> NoUrl]

\* The URLs requests carry: a strict and a lenient archive service, and a
\* paywalled site.
GateUrls ==
    { [has_scheme |-> TRUE, host |-> h] :
        h \in { <<"archive", "ph">>, <<"web", "archive", "org">>,
                <<"nytimes", "com">> } }

\* The requests clients send: POST /convert for each of the URLs, and
\* GET /test for the strict archive service.
Requests ==
    [endpoint : {"convert"}, url : GateUrls]
    \cup [endpoint : {"test"},
          url : {[has_scheme |-> TRUE, host |-> <<"archive", "ph">>]}]

\* A request that has been sent and has not been answered.
InFlight(r) == pc[r] \notin {"new", "done"}

SrvIdle ==
    /\ now = 0
    /\ rate_limits = <<>>
    /\ req = [r \in ReqIds |-> NoReq]
    /\ pc = [r \in ReqIds |-> "off"]
    /\ serving = 0
    /\ wait_time = [r \in ReqIds |-> 0]
    /\ wake_at = [r \in ReqIds |-> 0]
    /\ gate_ts = [r \in ReqIds |-> None]
    /\ fetch_start = [r \in ReqIds |-> None]
    /\ concurrent = [r \in ReqIds |-> FALSE]

SrvInit ==
    /\ now = 0
    /\ rate_limits = <<>>
    /\ req = [r \in ReqIds |-> NoReq]
    /\ pc = [r \in ReqIds |-> "new"]
    /\ serving = 0
    /\ wait_time = [r \in ReqIds |-> 0]
    /\ wake_at = [r \in ReqIds |-> 0]
    /\ gate_ts = [r \in ReqIds |-> None]
    /\ fetch_start = [r \in ReqIds |-> None]
    /\ concurrent = [r \in ReqIds |-> FALSE]

\* The clock advances (followed for as long as a request is still to be
\* answered).
Tick ==
    /\ \E r \in ReqIds : pc[r] # "done"
    /\ now + TickStep <= MaxTime
    /\ now' = now + TickStep
    /\ UNCHANGED <<notSrv, rate_limits, req, pc, serving, wait_time, wake_at, gate_ts,
                   fetch_start, concurrent>>

\* A client sends request r (requests are numbered in order of arrival).
Arrive(r) ==
    /\ pc[r] = "new"
    /\ \A q \in ReqIds : q < r => pc[q] # "new"
    /\ \E request \in Requests : req' = [req EXCEPT ![r] = request]
    /\ pc' = [pc EXCEPT ![r] = "queued"]
    /\ concurrent' = [concurrent EXCEPT ![r] = \E q \in ReqIds : InFlight(q)]
    /\ UNCHANGED <<notSrv, now, rate_limits, serving, wait_time, wake_at, gate_ts,
                   fetch_start>>

\* A server with a thread per connection (ThreadingHTTPServer): a queued
\* request starts whatever the other handlers are doing.
CanAccept_Threaded(r) ==
    \A q \in ReqIds : q < r => pc[q] # "queued"

\* What holds a queued request back: the server's one thread is busy, or
\* an earlier connection is still queued.
CanAccept(r) ==
    /\ serving = 0
    /\ \A q \in ReqIds : q < r => pc[q] # "queued"

\* The server takes request r off the listen queue and runs its handler
\* (do_POST /convert, do_GET /test) up to the end of the rate-limit test
\* of handle_archive_url: process_url_with_archives, the lookup in
\* rate_limits, the clock reading and the computation of wait_time.
Accept(r) ==
    /\ pc[r] = "queued"
    /\ CanAccept(r)
    /\ serving' = r
    /\ LET u == req[r].url
           domain == Netloc(u)
           w == WaitTime(domain, rate_limits, now)
       IN  IF ProcessBranch(u) = "archive"
           THEN /\ wait_time' = [wait_time EXCEPT ![r] = w]
                /\ wake_at' = [wake_at EXCEPT ![r] = now + w]
                /\ pc' = [pc EXCEPT ![r] = IF w > 0 THEN "sleep" ELSE "record"]
           ELSE /\ pc' = [pc EXCEPT ![r] = "processed"]
                /\ UNCHANGED <<notSrv, wait_time, wake_at>>
    /\ UNCHANGED <<notSrv, now, rate_limits, req, gate_ts, fetch_start, concurrent>>

\* time.sleep(wait_time) returns: not before wait_time has passed.
SleepReturns(r) ==
    /\ pc[r] = "sleep"
    /\ now >= wake_at[r]
    /\ pc' = [pc EXCEPT ![r] = "record"]
    /\ UNCHANGED <<notSrv, now, rate_limits, req, serving, wait_time, wake_at, gate_ts,
                   fetch_start, concurrent>>

\* The last statement of handle_archive_url: the tracker is updated.
GateRecord(r) ==
    /\ pc[r] = "record"
    /\ rate_limits' = RecordRequest(rate_limits, Netloc(req[r].url), now)
    /\ gate_ts' = [gate_ts EXCEPT ![r] = now]
    /\ pc' = [pc EXCEPT ![r] = "processed"]
    /\ UNCHANGED <<notSrv, now, req, serving, wait_time, wake_at, fetch_start, concurrent>>

\* /test: test_article_extraction returns and the response is sent; the
\* handler's locals are gone.
TestRespond(r) ==
    /\ pc[r] = "processed"
    /\ req[r].endpoint = "test"
    /\ pc' = [pc EXCEPT ![r] = "done"]
    /\ serving' = 0
    /\ wait_time' = [wait_time EXCEPT ![r] = 0]
    /\ wake_at' = [wake_at EXCEPT ![r] = 0]
    /\ UNCHANGED <<notSrv, now, rate_limits, req, gate_ts, fetch_start, concurrent>>

\* /convert: run_conversion starts the converter process, which fetches
\* the URL.
StartConversion(r) ==
    /\ pc[r] = "processed"
    /\ req[r].endpoint = "convert"
    /\ fetch_start' = [fetch_start EXCEPT ![r] = now]
    /\ pc' = [pc EXCEPT ![r] = "running"]
    /\ UNCHANGED <<notSrv, now, rate_limits, req, serving, wait_time, wake_at, gate_ts,
                   concurrent>>

\* /convert: the converter process ends (or times out) and the response
\* is sent; the handler's locals are gone.
FinishConversion(r) ==
    /\ pc[r] = "running"
    /\ pc' = [pc EXCEPT ![r] = "done"]
    /\ serving' = 0
    /\ wait_time' = [wait_time EXCEPT ![r] = 0]
    /\ wake_at' = [wake_at EXCEPT ![r] = 0]
    /\ UNCHANGED <<notSrv, now, rate_limits, req, gate_ts, fetch_start, concurrent>>

----------------------------------------------------------------------------
\* POST /convert as one step of the single-threaded server: do_POST from
\* the parsing of the body to the response, with the gate and
\* run_conversion in between.

\* A value a dict has no entry for.
Absent == "absent"

\* The texts a failed converter process leaves in stderr/stdout.
CliMessages ==
    { <<"failed">>, <<"Rate", "limit">>, <<"429">>, <<"PAYWALL">>,
      <<"subscription">>, <<"429", "PAYWALL">>, <<"timeout">> }

\* How subprocess.run ends: exit code 0, another exit code with an error
\* text, TimeoutExpired, or another exception (the text of str(e)).
CliOutcomes ==
    [kind : {"exit0", "timeout"}, message : {<<>>}]
    \cup [kind : {"failed"}, message : CliMessages]
    \cup [kind : {"exception"}, message : {<<"No", "such", "file">>}]

\* The bodies of POST /convert: JSON with a url (of an archive service, of
\* a paywalled site), JSON without one, text that is not JSON, and a
\* request without a Content-Length header.
ConvUrls ==
    { [has_scheme |-> TRUE, host |-> h] :
        h \in { <<"archive", "ph">>, <<"nytimes", "com">> } }

PostBodies ==
    [kind : {"json"}, url : ConvUrls \cup {NoUrl}]
    \cup [kind : {"bad_json", "no_length"}, url : {NoUrl}]

\* str(e) of the TypeError int(None) raises.
NoLengthMessage ==
    <<"int()", "argument", "must", "be", "a", "string", "not", "NoneType">>

NoResponse ==
    [status |-> 0, success |-> Absent, error |-> Absent, error_type |-> Absent,
     user_message |-> Absent, suggestions |-> <<>>,
     retry_suggestions |-> <<>>, paywall_detected |-> Absent]

\* 'nytimes.com' in url
IsNYTimes(u) == Contains(u.host, <<"nytimes", "com">>)

\* run_conversion testing the paywall markers before the rate-limit
\* markers.
run_conversion_PaywallFirst(u, outcome) ==
    LET error_message == outcome.message
    IN  CASE outcome.kind = "exit0" ->
                [NoResponse EXCEPT !.success = TRUE]
          [] outcome.kind = "failed" ->
                IF \/ Contains(Lower(error_message), <<"paywall">>)
                   \/ Contains(Lower(error_message), <<"subscription">>)
                THEN [NoResponse EXCEPT
                        !.success = FALSE,
                        !.error = "Article appears to be behind a paywall",
                        !.retry_suggestions =
                            IF IsNYTimes(u)
                            THEN << <<"https://archive.today/?run=1&url=", u>>,
                                    <<"https://12ft.io/", u>>,
                                    <<"https://web.archive.org/web/newest/", u>> >>
                            ELSE << <<"https://12ft.io/", u>>,
                                    <<"https://archive.ph/", u>>,
                                    <<"https://outline.com/", u>> >>,
                        !.paywall_detected = TRUE]
                ELSE IF \/ Contains(Lower(error_message), <<"rate", "limit">>)
                        \/ Contains(error_message, <<"429">>)
                THEN [NoResponse EXCEPT
                        !.success = FALSE,
                        !.error = "Rate limited by source site",
                        !.retry_suggestions =
                            << <<"https://archive.ph/", u>>,
                               <<"https://web.archive.org/web/", u>> >>]
                ELSE [NoResponse EXCEPT
                        !.success = FALSE, !.error = error_message]
          [] outcome.kind = "timeout" ->
                [NoResponse EXCEPT
                    !.success = FALSE,
                    !.error = IF is_archive_url(u)
                              THEN "Conversion timed out (Archive sites may be slower)"
                              ELSE "Conversion timed out"]
          [] outcome.kind = "exception" ->
                [NoResponse EXCEPT !.success = FALSE, !.error = error_message]

\* The result dict of run_conversion(url, ...), as the fields of the
\* response it becomes.
run_conversion(u, outcome) ==
    LET error_message == outcome.message
    IN  CASE outcome.kind = "exit0" ->
                [NoResponse EXCEPT !.success = TRUE]
          [] outcome.kind = "failed" ->
                IF \/ Contains(Lower(error_message), <<"rate", "limit">>)
                   \/ Contains(error_message, <<"429">>)
                THEN [NoResponse EXCEPT
                        !.success = FALSE,
                        !.error = "Rate limited by source site",
                        !.retry_suggestions =
                            << <<"https://archive.ph/", u>>,
                               <<"https://web.archive.org/web/", u>> >>]
                ELSE IF \/ Contains(Lower(error_message), <<"paywall">>)
                        \/ Contains(Lower(error_message), <<"subscription">>)
                THEN [NoResponse EXCEPT
                        !.success = FALSE,
                        !.error = "Article appears to be behind a paywall",
                        !.retry_suggestions =
                            IF IsNYTimes(u)
                            THEN << <<"https://archive.today/?run=1&url=", u>>,
                                    <<"https://12ft.io/", u>>,
                                    <<"https://web.archive.org/web/newest/", u>> >>
                            ELSE << <<"https://12ft.io/", u>>,
                                    <<"https://archive.ph/", u>>,
                                    <<"https://outline.com/", u>> >>,
                        !.paywall_detected = TRUE]
                ELSE [NoResponse EXCEPT
                        !.success = FALSE, !.error = error_message]
          [] outcome.kind = "timeout" ->
                [NoResponse EXCEPT
                    !.success = FALSE,
                    !.error = IF is_archive_url(u)
                              THEN "Conversion timed out (Archive sites may be slower)"
                              ELSE "Conversion timed out"]
          [] outcome.kind = "exception" ->
                [NoResponse EXCEPT !.success = FALSE, !.error = error_message]

\* The response of do_POST's `except Exception` clause.
ExceptionResponse(msg) ==
    LET c == categorize_error(msg)
    IN  [NoResponse EXCEPT
            !.status = 500, !.error = msg, !.error_type = c.error_type,
            !.user_message = c.user_message, !.suggestions = c.suggestions]

\* The response of do_POST to a body and an outcome of the converter.
do_POST_response(body, outcome) ==
    CASE body.kind = "bad_json" ->
            [NoResponse EXCEPT
                !.status = 400, !.error = "Invalid JSON in request body",
                !.error_type = "invalid_json",
                !.user_message = "The request format is invalid. Please try again.",
                !.suggestions = <<"Check if the URL is correctly formatted",
                                  "Try refreshing the page">>]
      [] body.kind = "no_length" -> ExceptionResponse(NoLengthMessage)
      [] body.kind = "json" ->
            IF body.url = NoUrl
            THEN [NoResponse EXCEPT !.status = 400, !.error = "URL is required"]
            ELSE [run_conversion(body.url, outcome) EXCEPT !.status = 200]

\* A conversion was run for the body: it parsed and named a URL.
RunsConversion(body) == body.kind = "json" /\ body.url # NoUrl

NoPost == [kind |-> "none", url |-> NoUrl]
NoCli == [kind |-> "none", message |-> <<>>]

ConvIdle ==
    /\ post = NoPost
    /\ cli = NoCli
    /\ response = NoResponse

\* The server handles one POST /convert from start to end: the gate may
\* sleep (the clock moves on by wait_time) and records the time, the
\* converter runs, the response is sent.
DoPost(body, outcome) ==
    /\ post' = body
    /\ cli' = IF RunsConversion(body) THEN outcome ELSE NoCli
    /\ response' = do_POST_response(body, outcome)
    /\ IF RunsConversion(body) /\ ProcessBranch(body.url) = "archive"
       THEN LET domain == Netloc(body.url)
                w == WaitTime(domain, rate_limits, now)
            IN  /\ now + w <= MaxTime
                /\ now' = now + w
                /\ rate_limits' = RecordRequest(rate_limits, domain, now + w)
       ELSE UNCHANGED <<now, rate_limits>>
    /\ UNCHANGED <<notConv, req, pc, serving, wait_time, wake_at, gate_ts,
                   fetch_start, concurrent>>

\* Time passes between two requests.
ConvTick ==
    /\ now + TickStep <= MaxTime
    /\ now' = now + TickStep
    /\ UNCHANGED <<notConv, convVars, rate_limits, req, pc, serving, wait_time,
                   wake_at, gate_ts, fetch_start, concurrent>>

----------------------------------------------------------------------------
\* The gate by itself: process_url_with_archives as GET /test
\* (test_article_extraction) and POST /convert (do_POST) call it, given the
\* URL, the map self.rate_limits and the clock reading at the call.  The
\* result holds the URL returned, the time slept and the map afterwards.

\* handle_archive_url(url): sleep for wait_time if there is one, record
\* the time read after the sleep, return the URL.
handle_archive_url(u, rl, t) ==
    LET domain == Netloc(u)
        w == WaitTime(domain, rl, t)
    IN  [url |-> u, wait |-> w,
         rate_limits |-> RecordRequest(rl, domain, t + w)]

\* The gate that sends every URL through handle_archive_url.
process_url_with_archives_All(u, rl, t) == handle_archive_url(u, rl, t)

\* process_url_with_archives(url): the archive branch goes through
\* handle_archive_url; the paywall branch and the ordinary branch return
\* the URL.
process_url_with_archives(u, rl, t) ==
    IF is_archive_url(u) THEN handle_archive_url(u, rl, t)
    ELSE [url |-> u, wait |-> 0, rate_limits |-> rl]

\* GET /test answering without the gate.
test_article_extraction_Ungated(u, rl, t) ==
    [url |-> u, wait |-> 0, rate_limits |-> rl]

\* test_article_extraction(url): its call of the gate.
test_article_extraction(u, rl, t) == process_url_with_archives(u, rl, t)

\* The gate call of the handler of an endpoint.
HandlerGate(endpoint, u, rl, t) ==
    IF endpoint = "test" THEN test_article_extraction(u, rl, t)
    ELSE process_url_with_archives(u, rl, t)

Endpoints == {"convert", "test"}

\* The URLs of the calls: an archive service of each tier, a paywalled
\* site and an ordinary site.
GateCallUrls ==
    { [has_scheme |-> TRUE, host |-> h] :
        h \in { <<"archive", "ph">>, <<"web", "archive", "org">>,
                <<"12ft", "io">>, <<"nytimes", "com">>,
                <<"example", "com">> } }

\* The requests clients send: POST /convert for each of the URLs, and
\* GET /test for the strict archive service and the paywalled site.
GateRequests ==
    [endpoint : {"convert"}, url : GateCallUrls]
    \cup [endpoint : {"test"},
          url : { [has_scheme |-> TRUE, host |-> h] :
                    h \in { <<"archive", "ph">>, <<"nytimes", "com">> } }]

NoGateCall ==
    [endpoint |-> "none", url |-> NoUrl, returned |-> NoUrl, at |-> 0,
     wait |-> 0, found |-> None, found_by |-> "none"]

GateIdle ==
    /\ gate_call = NoGateCall
    /\ recorded_by = <<>>
    /\ gate_pc = "off"
    /\ gate_calls = 0

GateInit ==
    /\ now = 0
    /\ rate_limits = <<>>
    /\ req = [r \in ReqIds |-> NoReq]
    /\ pc = [r \in ReqIds |-> "off"]
    /\ serving = 0
    /\ wait_time = [r \in ReqIds |-> 0]
    /\ wake_at = [r \in ReqIds |-> 0]
    /\ gate_ts = [r \in ReqIds |-> None]
    /\ fetch_start = [r \in ReqIds |-> None]
    /\ concurrent = [r \in ReqIds |-> FALSE]
    /\ gate_call = NoGateCall
    /\ recorded_by = <<>>
    /\ gate_pc = "ready"
    /\ gate_calls = 0

\* The handler of an endpoint calls the gate for a URL: the call sleeps
\* (the clock moves on by the wait) and returns.  gate_call keeps what the
\* call found in the map, recorded_by who wrote each entry.
GateRequest(endpoint, u) ==
    /\ gate_pc = "ready"
    /\ gate_calls < MaxGateCalls
    /\ gate_calls' = gate_calls + 1
    /\ LET g == HandlerGate(endpoint, u, rate_limits, now)
           domain == Netloc(u)
       IN  /\ now + g.wait <= MaxTime
           /\ now' = now + g.wait
           /\ rate_limits' = g.rate_limits
           /\ gate_call' =
                 [endpoint |-> endpoint, url |-> u, returned |-> g.url,
                  at |-> now, wait |-> g.wait,
                  found |-> IF domain \in DOMAIN rate_limits
                            THEN rate_limits[domain] ELSE None,
                  found_by |-> IF domain \in DOMAIN recorded_by
                               THEN recorded_by[domain] ELSE "none"]
           /\ recorded_by' =
                 [d \in DOMAIN g.rate_limits |->
                    IF d \notin DOMAIN rate_limits
                       \/ g.rate_limits[d] # rate_limits[d]
                    THEN endpoint ELSE recorded_by[d]]
    /\ gate_pc' = "returned"
    /\ UNCHANGED <<notGate, req, pc, serving, wait_time, wake_at, gate_ts,
                   fetch_start, concurrent>>

\* The handler goes on with the URL the gate returned and answers.
GateRespond ==
    /\ gate_pc = "returned"
    /\ gate_pc' = "ready"
    /\ UNCHANGED <<notGate, srvVars, gate_call, recorded_by, gate_calls>>

\* Time passes between two requests.
GateTick ==
    /\ gate_pc = "ready"
    /\ now + TickStep <= MaxTime
    /\ now' = now + TickStep
    /\ UNCHANGED <<notGate, gateVars, rate_limits, req, pc, serving, wait_time,
                   wake_at, gate_ts, fetch_start, concurrent>>

----------------------------------------------------------------------------
\* simple-api.py, POST /api/convert: convert_article with its inner
\* generate_edge_tts and fallback_tts.  The content is given by its
\* sentences, the pieces between '. ', each by its number of characters
\* and of words; lengths are the code's (10000, 8000, 5000 characters).

LongContent == 10000
TtsChunkSize == 8000
TruncatedLen == 5000
MinExtracted == 50

\* A short sentence ("Short test sentence."), one of which two fill a
\* chunk exactly, and one longer than a chunk.
SentenceKinds ==
    { [chars |-> 20, words |-> 3],
      [chars |-> 3998, words |-> 650],
      [chars |-> 9000, words |-> 1500] }

Contents == SeqsUpTo(SentenceKinds, MaxSentences)

RECURSIVE SumChars(_, _)
\* The length of the first k sentences of c, each followed by '. '.
SumChars(c, k) == IF k = 0 THEN 0 ELSE SumChars(c, k - 1) + c[k].chars + 2

\* len(content)
ContentLen(c) == IF c = <<>> THEN 0 ELSE SumChars(c, Len(c)) - 2

RECURSIVE SumWords(_, _)
SumWords(c, k) == IF k = 0 THEN 0 ELSE SumWords(c, k - 1) + c[k].words

\* The word count taken from the first sentence alone.
WordCount_FirstSentence(c) == SumWords(c, IF c = <<>> THEN 0 ELSE 1)

\* len(content.split())
WordCount(c) == SumWords(c, Len(c))

RECURSIVE SentenceLoop(_, _, _, _, _)
\* The for loop of chunk_text and the flush after it, on sentences given
\* by their lengths: current_chunk holds the sentences first..k-1 and k is
\* the sentence of this iteration.  A chunk is the range of its sentences.
SentenceLoop(c, k, acc, first, maxSize) ==
    LET current_len == SumChars(c, k - 1) - SumChars(c, first - 1)
        flushed == IF current_len > 0
                   THEN Append(acc, [first |-> first, last |-> k - 1])
                   ELSE acc
    IN  IF k > Len(c) THEN flushed
        ELSE IF current_len + c[k].chars + 2 <= maxSize
             THEN SentenceLoop(c, k + 1, acc, first, maxSize)
             ELSE SentenceLoop(c, k + 1, flushed, k, maxSize)

\* chunk_text(content, max_chunk_size) on sentences given by their lengths.
chunk_sentences(c, maxSize) == SentenceLoop(c, 1, <<>>, 1, maxSize)

\* The speech an audio file holds: the characters from..to of the content.
NoSpeech == [from |-> 1, to |-> 0]

\* edge_tts.Communicate(chunk, voice).save(chunk_path)
ChunkSpeech(c, ch) ==
    [from |-> SumChars(c, ch.first - 1) + 1, to |-> SumChars(c, ch.last) - 2]

\* edge_tts.Communicate(content, voice).save(audio_path)
WholeSpeech(c) == [from |-> 1, to |-> ContentLen(c)]

\* edge_tts.Communicate(content[:5000] + "...", voice).save(audio_path)
TruncatedSpeech(c) ==
    [from |-> 1,
     to |-> IF ContentLen(c) < TruncatedLen THEN ContentLen(c) ELSE TruncatedLen]

\* The size of an audio file, which grows with the text spoken.
Size(speech) == speech.to - speech.from + 1

NoApiReq == [type |-> "none", content |-> <<>>]
NoApiResult ==
    [status |-> 0, success |-> Absent, wordCount |-> 0 - 1, audioUrl |-> FALSE,
     error |-> Absent]

\* jsonify(result) of a conversion that got to the end.
ApiSuccess(c) ==
    [status |-> 200, success |-> TRUE, wordCount |-> WordCount(c),
     audioUrl |-> TRUE, error |-> Absent]

\* jsonify({'error': ...}), status
ApiError(status, message) ==
    [NoApiResult EXCEPT !.status = status, !.error = message]

\* The loop of generate_edge_tts taking the chunks last to first.
SaveChunk_Reversed(chs, i) ==
    [text |-> "chunk", segment |-> Len(chs) + 1 - i, file |-> i]

\* Iteration i (counted from 1) of `for i, chunk in enumerate(chunks)`:
\* Communicate(chunk, voice) on chunk i, saved to the file of index i.
SaveChunk(chs, i) == [text |-> "chunk", segment |-> i, file |-> i]

\* Communicate(content, voice) saved to audio_path.
WholeCall == [text |-> "whole", segment |-> 0, file |-> 0]

\* Communicate(truncated_content, voice) of fallback_tts, saved to
\* audio_path.
TruncatedCall == [text |-> "truncated", segment |-> 0, file |-> 0]

ApiIdle ==
    /\ api_req = NoApiReq
    /\ api_pc = "off"
    /\ api_chunks = <<>>
    /\ all_audio = 0
    /\ chunk_files = {}
    /\ audio_file = NoSpeech
    /\ last_synth = "none"
    /\ timed_out = FALSE
    /\ api_result = NoApiResult
    /\ synth_calls = <<>>
    /\ extract_calls = 0

ApiInit ==
    /\ api_req = NoApiReq
    /\ api_pc = "new"
    /\ api_chunks = <<>>
    /\ all_audio = 0
    /\ chunk_files = {}
    /\ audio_file = NoSpeech
    /\ last_synth = "none"
    /\ timed_out = FALSE
    /\ api_result = NoApiResult
    /\ synth_calls = <<>>
    /\ extract_calls = 0

\* The request arrives and convert_article runs up to the first await of
\* generate_edge_tts: raw text is taken as it is, a URL goes through
\* extract_article_simple (which raises on a failed fetch and on content
\* under 50 characters); empty content is answered with 400; long content
\* is chunked.
ApiReceive(type, c, extracted) ==
    /\ api_pc = "new"
    /\ api_req' = [type |-> type, content |-> c]
    /\ extract_calls' = IF type = "url" THEN extract_calls + 1 ELSE extract_calls
    /\ IF type = "url" /\ (~extracted \/ ContentLen(c) < MinExtracted)
       THEN /\ api_result' = ApiError(500, "Failed to extract article from URL")
            /\ api_pc' = "done"
            /\ UNCHANGED <<api_chunks, synth_calls>>
       ELSE IF c = <<>>
       THEN /\ api_result' = ApiError(400, "No content to convert")
            /\ api_pc' = "done"
            /\ UNCHANGED <<api_chunks, synth_calls>>
       ELSE /\ api_chunks' = IF ContentLen(c) > LongContent
                             THEN chunk_sentences(c, TtsChunkSize) ELSE <<>>
            /\ synth_calls' =
                  Append(synth_calls,
                         IF api_chunks' # <<>> THEN SaveChunk(api_chunks', 1)
                         ELSE WholeCall)
            /\ api_pc' = "synth"
            /\ UNCHANGED api_result
    /\ UNCHANGED <<notApi, all_audio, chunk_files, audio_file, last_synth,
                   timed_out>>

\* Long content: communicate.save(chunk_path) returns for the next chunk.
\* After the last chunk the code runs to the response without awaiting:
\* the first chunk's file is moved to audio_path, the files of the other
\* chunks are removed, the result is built.
SynthChunkOk ==
    /\ api_pc = "synth"
    /\ api_chunks # <<>>
    /\ all_audio < Len(api_chunks)
    /\ all_audio' = all_audio + 1
    /\ last_synth' = "ok"
    /\ IF all_audio + 1 < Len(api_chunks)
       THEN /\ chunk_files' = chunk_files \cup {all_audio + 1}
            /\ synth_calls' =
                  Append(synth_calls, SaveChunk(api_chunks, all_audio + 2))
            /\ UNCHANGED <<api_pc, audio_file, api_result>>
       ELSE /\ audio_file' = ChunkSpeech(api_req.content, api_chunks[1])
            /\ chunk_files' = {}
            /\ api_result' = ApiSuccess(api_req.content)
            /\ api_pc' = "done"
            /\ UNCHANGED synth_calls
    /\ UNCHANGED <<notApi, api_req, api_chunks, timed_out, extract_calls>>

\* Content of 10000 characters or less: communicate.save(audio_path)
\* returns, and the code runs to the response.
SynthWholeOk ==
    /\ api_pc = "synth"
    /\ api_chunks = <<>>
    /\ audio_file' = WholeSpeech(api_req.content)
    /\ last_synth' = "ok"
    /\ api_result' = ApiSuccess(api_req.content)
    /\ api_pc' = "done"
    /\ UNCHANGED <<notApi, api_req, api_chunks, all_audio, chunk_files, timed_out,
                   synth_calls, extract_calls>>

\* The files a save() that did not return leaves behind: the chunk file it
\* was writing may have been created.
AfterBrokenSave(started) ==
    IF api_chunks # <<>> /\ started
    THEN chunk_files \cup {all_audio + 1} ELSE chunk_files

\* A save() of generate_edge_tts raises: the exception leaves the event
\* loop and convert_article's `except Exception` answers with 500.
SynthError(started) ==
    /\ api_pc = "synth"
    /\ chunk_files' = AfterBrokenSave(started)
    /\ last_synth' = "error"
    /\ api_result' = ApiError(500, "synthesis failed")
    /\ api_pc' = "done"
    /\ UNCHANGED <<notApi, api_req, api_chunks, all_audio, audio_file, timed_out,
                   synth_calls, extract_calls>>

\* asyncio.wait_for(generate_edge_tts(), timeout=300) cancels the
\* coroutine at its await and raises TimeoutError; fallback_tts is started
\* on the truncated content.
SynthTimeout(started) ==
    /\ api_pc = "synth"
    /\ chunk_files' = AfterBrokenSave(started)
    /\ timed_out' = TRUE
    /\ synth_calls' = Append(synth_calls, TruncatedCall)
    /\ api_pc' = "fallback"
    /\ UNCHANGED <<notApi, api_req, api_chunks, all_audio, audio_file, last_synth,
                   api_result, extract_calls>>

\* fallback_tts returns (it is run without a timeout), and the code runs
\* to the response.
FallbackOk ==
    /\ api_pc = "fallback"
    /\ audio_file' = TruncatedSpeech(api_req.content)
    /\ last_synth' = "ok"
    /\ api_result' = ApiSuccess(api_req.content)
    /\ api_pc' = "done"
    /\ UNCHANGED <<notApi, api_req, api_chunks, all_audio, chunk_files, timed_out,
                   synth_calls, extract_calls>>

\* fallback_tts raises: convert_article's `except Exception` answers 500.
FallbackError ==
    /\ api_pc = "fallback"
    /\ last_synth' = "error"
    /\ api_result' = ApiError(500, "synthesis failed")
    /\ api_pc' = "done"
    /\ UNCHANGED <<notApi, api_req, api_chunks, all_audio, chunk_files, audio_file,
                   timed_out, synth_calls, extract_calls>>

----------------------------------------------------------------------------
\* The data lake: POST /convert of server.py and cloud-server.py, POST
\* /api/convert of api-server.py (the part after synthesis), and GET and
\* DELETE /article/{article_id} of server.py and cloud-server.py.

ArticleIds == 1..MaxRows

\* How the collaborators of one conversion end: the synthesis, the upload
\* to storage and the insert of the row; `save` is request.save
\* (cloud-server.py) or storageMode in ['always', 'favorites']
\* (api-server.py).
PersistOutcomes ==
    [synth : {"ok", "raises"}, save : BOOLEAN, upload : {"ok", "raises"},
     insert : {"row", "no_row", "raises"}]

NoLakeResp ==
    [status |-> 0, audio_url |-> Absent, from_row |-> FALSE, blob |-> FALSE,
     file |-> FALSE]

\* raise HTTPException(status_code=..., ...)
HttpError(status) == [NoLakeResp EXCEPT !.status = status]

\* server.py convert_article with the `try` around the Supabase calls
\* taken away: what they raise reaches the outer `except Exception`.
convert_server_Unguarded(sb, o) ==
    IF o.synth = "raises" THEN HttpError(500)
    ELSE IF ~sb
    THEN [NoLakeResp EXCEPT !.status = 200, !.audio_url = "data_uri", !.file = TRUE]
    ELSE IF o.upload = "raises" \/ o.insert = "raises" THEN HttpError(500)
    ELSE IF o.insert = "row"
    THEN [NoLakeResp EXCEPT !.status = 200, !.audio_url = "storage_url",
                            !.from_row = TRUE, !.blob = TRUE, !.file = TRUE]
    ELSE [NoLakeResp EXCEPT !.status = 200, !.audio_url = "data_uri",
                            !.blob = TRUE, !.file = TRUE]

\* server.py convert_article: the response, whether it is built from the
\* inserted row, whether storage holds the blob and the output directory
\* the file.  An upload that raises skips the insert.
convert_server(sb, o) ==
    IF o.synth = "raises" THEN HttpError(500)
    ELSE IF sb /\ o.upload = "ok" /\ o.insert = "row"
    THEN [NoLakeResp EXCEPT !.status = 200, !.audio_url = "storage_url",
                            !.from_row = TRUE, !.blob = TRUE, !.file = TRUE]
    ELSE [NoLakeResp EXCEPT !.status = 200, !.audio_url = "data_uri",
                            !.blob = sb /\ o.upload = "ok", !.file = TRUE]

\* cloud-server.py convert_article: a failed upload keeps the data URI and
\* the row is inserted all the same.
convert_cloud(sb, o) ==
    IF o.synth = "raises" THEN HttpError(500)
    ELSE IF sb /\ o.save /\ o.insert = "row"
    THEN [NoLakeResp EXCEPT
             !.status = 200,
             !.audio_url = IF o.upload = "ok" THEN "storage_url" ELSE "data_uri",
             !.from_row = TRUE, !.blob = o.upload = "ok", !.file = TRUE]
    ELSE [NoLakeResp EXCEPT !.status = 200, !.audio_url = "data_uri",
                            !.blob = sb /\ o.save /\ o.upload = "ok",
                            !.file = TRUE]

\* api-server.py convert_article after the synthesis: save_to_supabase
\* catches what the insert raises; the result names the local audio URL.
convert_api(sb, o) ==
    IF o.synth = "raises" THEN HttpError(500)
    ELSE [NoLakeResp EXCEPT !.status = 200, !.audio_url = "local_url",
                            !.file = TRUE]

convert_article(server, sb, o) ==
    CASE server = "server" -> convert_server(sb, o)
      [] server = "cloud" -> convert_cloud(sb, o)
      [] server = "api" -> convert_api(sb, o)

\* The conversion inserted a row.
InsertsRow(server, sb, o) ==
    /\ o.synth = "ok"
    /\ sb
    /\ o.insert = "row"
    /\ CASE server = "server" -> o.upload = "ok"
         [] server = "cloud" -> o.save
         [] server = "api" -> o.save

\* get_article and delete_article: 503 without a client; the 404 raised
\* for an id without a row is raised inside the `try` and caught by its
\* `except Exception`, which raises 500.
article_status(sb, found) ==
    IF ~sb THEN 503
    ELSE IF found THEN 200
    ELSE 500

NoLakeReq ==
    [kind |-> "none", server |-> "none", id |-> 0,
     outcome |-> [synth |-> "ok", save |-> FALSE, upload |-> "ok", insert |-> "row"]]

LakeIdle ==
    /\ supabase = FALSE
    /\ lake_rows = {}
    /\ lake_req = NoLakeReq
    /\ lake_resp = NoLakeResp

LakeInit ==
    /\ supabase \in BOOLEAN
    /\ lake_rows = {}
    /\ lake_req = NoLakeReq
    /\ lake_resp = NoLakeResp

\* One conversion request with a valid body, from the synthesis to the
\* response.
LakeConvert(server, o) ==
    /\ lake_req' = [NoLakeReq EXCEPT !.kind = "convert", !.server = server,
                                     !.outcome = o]
    /\ lake_resp' = convert_article(server, supabase, o)
    /\ IF InsertsRow(server, supabase, o)
       THEN \E id \in ArticleIds \ lake_rows : lake_rows' = lake_rows \cup {id}
       ELSE UNCHANGED lake_rows
    /\ UNCHANGED <<notLake, supabase>>

\* POST /convert of server.py with a body that lacks the required title
\* and content: the ConversionRequest model rejects it.
LakeInvalidConvert ==
    /\ lake_req' = [NoLakeReq EXCEPT !.kind = "invalid", !.server = "server"]
    /\ lake_resp' = HttpError(422)
    /\ UNCHANGED <<notLake, supabase, lake_rows>>

\* GET /article/{article_id}
LakeGetArticle(id) ==
    /\ lake_req' = [NoLakeReq EXCEPT !.kind = "get", !.server = "server", !.id = id]
    /\ lake_resp' = HttpError(article_status(supabase, id \in lake_rows))
    /\ UNCHANGED <<notLake, supabase, lake_rows>>

\* DELETE /article/{article_id}
LakeDeleteArticle(id) ==
    /\ lake_req' = [NoLakeReq EXCEPT !.kind = "delete", !.server = "server",
                                     !.id = id]
    /\ lake_resp' = HttpError(article_status(supabase, id \in lake_rows))
    /\ lake_rows' = IF supabase THEN lake_rows \ {id} ELSE lake_rows
    /\ UNCHANGED <<notLake, supabase>>

----------------------------------------------------------------------------
\* api-server.py, POST /api/convert: convert_article with the primary
\* engine (generate_audio_edge_tts) and the fallback engine
\* (generate_audio_gtts).  Content is a sequence of characters.

\* The 'speed' of a request: a number, a value float() turns into nan
\* (on which int() raises), and text float() raises on.
Speeds == {"1.0", "nan", "abc"}

\* The contents of requests: letters and blanks, so that stripping shows.
FbContents == SeqsUpTo({"a", " "}, MaxTextLen)

FbRequests ==
    [authorized : BOOLEAN, type : {"text", "url", "file"},
     content : FbContents, extracted : BOOLEAN, speed : Speeds]

NoFbReq ==
    [authorized |-> FALSE, type |-> "none", content |-> <<>>,
     extracted |-> FALSE, speed |-> "1.0"]

\* The text handed to gTTS, were it the argument and not the stripped text.
FallbackText_Raw(t) == t

\* The text generate_audio_gtts is called with in the except clause of
\* generate_audio_edge_tts: `text` was rebound to text.strip().
FallbackText(t) == Strip(t)

\* The text edge_tts.Communicate is created with.
PrimaryText(t) == Strip(t)

FbIdle ==
    /\ fb_req = NoFbReq
    /\ fb_pc = "off"
    /\ primary_calls = <<>>
    /\ fallback_calls = <<>>
    /\ primary_failed = FALSE
    /\ fallback_failed = FALSE
    /\ fb_status = 0

FbInit ==
    /\ fb_req = NoFbReq
    /\ fb_pc = "new"
    /\ primary_calls = <<>>
    /\ fallback_calls = <<>>
    /\ primary_failed = FALSE
    /\ fallback_failed = FALSE
    /\ fb_status = 0

\* The request arrives and convert_article runs up to the await of
\* tts.save: 401 without a valid token; a URL is extracted (a failure
\* raises: 500); a file is refused and empty content too (400); a speed
\* float() cannot read raises (500); a speed of nan makes the rate
\* formatting of generate_audio_edge_tts raise before the engine is
\* created, and the except clause calls generate_audio_gtts.
FbReceive ==
    /\ fb_pc = "new"
    /\ \E request \in FbRequests :
          /\ fb_req' = request
          /\ IF ~request.authorized
             THEN /\ fb_status' = 401
                  /\ fb_pc' = "done"
                  /\ UNCHANGED <<primary_calls, fallback_calls, primary_failed>>
             ELSE IF request.type = "url" /\ ~request.extracted
             THEN /\ fb_status' = 500
                  /\ fb_pc' = "done"
                  /\ UNCHANGED <<primary_calls, fallback_calls, primary_failed>>
             ELSE IF request.type = "file" \/ request.content = <<>>
             THEN /\ fb_status' = 400
                  /\ fb_pc' = "done"
                  /\ UNCHANGED <<primary_calls, fallback_calls, primary_failed>>
             ELSE IF request.speed = "abc"
             THEN /\ fb_status' = 500
                  /\ fb_pc' = "done"
                  /\ UNCHANGED <<primary_calls, fallback_calls, primary_failed>>
             ELSE IF request.speed = "nan"
             THEN /\ primary_failed' = TRUE
                  /\ fallback_calls' = Append(fallback_calls, FallbackText(request.content))
                  /\ fb_pc' = "fallback"
                  /\ UNCHANGED <<primary_calls, fb_status>>
             ELSE /\ primary_calls' = Append(primary_calls, PrimaryText(request.content))
                  /\ fb_pc' = "primary"
                  /\ UNCHANGED <<fallback_calls, primary_failed, fb_status>>
          /\ UNCHANGED <<notFb, fallback_failed>>

\* await tts.save(output_path) returns: the result is built and sent.
PrimaryOk ==
    /\ fb_pc = "primary"
    /\ fb_status' = 200
    /\ fb_pc' = "done"
    /\ UNCHANGED <<notFb, fb_req, primary_calls, fallback_calls, primary_failed,
                   fallback_failed>>

\* await tts.save(output_path) raises: the except clause of
\* generate_audio_edge_tts calls generate_audio_gtts on the text.
PrimaryFails ==
    /\ fb_pc = "primary"
    /\ primary_failed' = TRUE
    /\ fallback_calls' = Append(fallback_calls, FallbackText(fb_req.content))
    /\ fb_pc' = "fallback"
    /\ UNCHANGED <<notFb, fb_req, primary_calls, fallback_failed, fb_status>>

\* gTTS(...).save(output_path) returns: the result is built and sent.
GttsOk ==
    /\ fb_pc = "fallback"
    /\ fb_status' = 200
    /\ fb_pc' = "done"
    /\ UNCHANGED <<notFb, fb_req, primary_calls, fallback_calls, primary_failed,
                   fallback_failed>>

\* gTTS raises: generate_audio_gtts re-raises and convert_article's
\* `except Exception` answers with 500.
GttsFails ==
    /\ fb_pc = "fallback"
    /\ fallback_failed' = TRUE
    /\ fb_status' = 500
    /\ fb_pc' = "done"
    /\ UNCHANGED <<notFb, fb_req, primary_calls, fallback_calls, primary_failed>>

----------------------------------------------------------------------------
\* Specifications.  Each runs one part of the model; the other parts idle.

\* The server and its rate limiter.
Init ==
    SrvInit /\ ChunkIdle /\ UrlIdle /\ ErrIdle /\ ConvIdle /\ ApiIdle /\ LakeIdle
    /\ FbIdle /\ GateIdle

Next ==
    \/ Tick
    \/ \E r \in ReqIds : Arrive(r)
    \/ \E r \in ReqIds : Accept(r)
    \/ \E r \in ReqIds : SleepReturns(r)
    \/ \E r \in ReqIds : GateRecord(r)
    \/ \E r \in ReqIds : TestRespond(r)
    \/ \E r \in ReqIds : StartConversion(r)
    \/ \E r \in ReqIds : FinishConversion(r)

Spec == Init /\ [][Next]_vars

\* chunk_text on every text and size of the bounds.
ChunkSpecInit ==
    ChunkInit /\ UrlIdle /\ ErrIdle /\ SrvIdle /\ ConvIdle /\ ApiIdle /\ LakeIdle
    /\ FbIdle /\ GateIdle
ChunkNext == ChunkCall
SpecChunk == ChunkSpecInit /\ [][ChunkNext]_vars

\* The URL classifier on every URL of the bounds.
UrlSpecInit ==
    UrlInit /\ ChunkIdle /\ ErrIdle /\ SrvIdle /\ ConvIdle /\ ApiIdle /\ LakeIdle
    /\ FbIdle /\ GateIdle
UrlNext == UrlClassify
SpecUrl == UrlSpecInit /\ [][UrlNext]_vars

\* categorize_error on every error text of the bounds.
ErrSpecInit ==
    ErrInit /\ ChunkIdle /\ UrlIdle /\ SrvIdle /\ ConvIdle /\ ApiIdle /\ LakeIdle
    /\ FbIdle /\ GateIdle
ErrNext == ErrCategorize
SpecErr == ErrSpecInit /\ [][ErrNext]_vars

\* POST /convert requests, one after the other, on every body and outcome.
ConvSpecInit ==
    ConvIdle /\ SrvIdle /\ ChunkIdle /\ UrlIdle /\ ErrIdle /\ ApiIdle /\ LakeIdle
    /\ FbIdle /\ GateIdle
ConvNext ==
    \/ ConvTick
    \/ \E body \in PostBodies, outcome \in CliOutcomes : DoPost(body, outcome)
SpecConv == ConvSpecInit /\ [][ConvNext]_vars

\* One POST /api/convert of simple-api.py, on every content of the bounds
\* and every way its synthesis calls can end.
ApiSpecInit ==
    ApiInit /\ ChunkIdle /\ UrlIdle /\ ErrIdle /\ SrvIdle /\ ConvIdle /\ LakeIdle
    /\ FbIdle /\ GateIdle
ApiNext ==
    \/ \E type \in {"text", "url"}, c \in Contents, extracted \in BOOLEAN :
          ApiReceive(type, c, extracted)
    \/ SynthChunkOk
    \/ SynthWholeOk
    \/ \E started \in BOOLEAN : SynthError(started)
    \/ \E started \in BOOLEAN : SynthTimeout(started)
    \/ FallbackOk
    \/ FallbackError
SpecApi == ApiSpecInit /\ [][ApiNext]_vars

\* Requests to the data lake, one after the other, with and without a
\* Supabase client.
LakeSpecInit ==
    LakeInit /\ ChunkIdle /\ UrlIdle /\ ErrIdle /\ SrvIdle /\ ConvIdle /\ ApiIdle
    /\ FbIdle /\ GateIdle
LakeNext ==
    \/ \E server \in {"server", "cloud", "api"}, o \in PersistOutcomes :
          LakeConvert(server, o)
    \/ LakeInvalidConvert
    \/ \E id \in ArticleIds : LakeGetArticle(id)
    \/ \E id \in ArticleIds : LakeDeleteArticle(id)
SpecLake == LakeSpecInit /\ [][LakeNext]_vars

\* One POST /api/convert of api-server.py, on every request of the bounds
\* and every way its two engines can end.
FbSpecInit ==
    FbInit /\ ChunkIdle /\ UrlIdle /\ ErrIdle /\ SrvIdle /\ ConvIdle /\ ApiIdle
    /\ LakeIdle /\ GateIdle
FbNext ==
    \/ FbReceive
    \/ PrimaryOk
    \/ PrimaryFails
    \/ GttsOk
    \/ GttsFails
SpecFb == FbSpecInit /\ [][FbNext]_vars

\* Calls of the gate by GET /test and POST /convert, one after the other,
\* with time passing in between.
GateSpecInit ==
    GateInit /\ ChunkIdle /\ UrlIdle /\ ErrIdle /\ ConvIdle /\ ApiIdle /\ LakeIdle
    /\ FbIdle
GateNext ==
    \/ GateTick
    \/ \E r \in GateRequests : GateRequest(r.endpoint, r.url)
    \/ GateRespond
SpecGate == GateSpecInit /\ [][GateNext]_vars

\* SpecApi with what the code's scheduling ensures: a request is taken
\* up, and the timer of asyncio.wait_for fires on a synthesis that has not
\* ended.  Nothing ensures that the speech service answers.
SpecApiFair ==
    /\ SpecApi
    /\ WF_vars(\E type \in {"text", "url"}, c \in Contents, extracted \in BOOLEAN :
                  ApiReceive(type, c, extracted))
    /\ WF_vars(\E started \in BOOLEAN : SynthTimeout(started))

----------------------------------------------------------------------------
\* Claims about the rate limiter and the server (specification Spec).

\* The URL is gated at the strict tier (archive.ph, 45 s).
IsStrict(u) ==
    ProcessBranch(u) = "archive" /\ MinDelay(Netloc(u)) = StrictDelay

\* The gate call of request r has returned.
GateDone(r) == gate_ts[r] # None /\ pc[r] \in {"processed", "running", "done"}

\* C1: of two sequential gate calls on the same strict-tier archive domain,
\* the second does not complete before the timestamp the first recorded
\* plus the minimum delay (45 s).  The timestamp a call records is read
\* just before it returns, so the call completes no earlier than that.
C1_SecondCallNotBeforeDelay ==
    \A r1, r2 \in ReqIds :
        ( /\ r1 < r2
          /\ GateDone(r1)
          /\ GateDone(r2)
          /\ req[r1].url = req[r2].url
          /\ IsStrict(req[r1].url) )
        => gate_ts[r2] >= gate_ts[r1] + StrictDelay

\* C1 witness: a second call on archive.ph that began within the delay,
\* slept and has returned.
C1_Witness ==
    \E r1, r2 \in ReqIds :
        /\ r1 < r2
        /\ req[r1].url = req[r2].url
        /\ IsStrict(req[r1].url)
        /\ GateDone(r1)
        /\ pc[r2] = "processed"
        /\ gate_ts[r2] # None
        /\ wait_time[r2] > 0

\* C2 as stated: of two conversions on the same strict-tier archive domain,
\* the later one starts fetching no earlier than the minimum delay after
\* the earlier one's fetch began.
C2_FetchStartsSpaced ==
    \A r1, r2 \in ReqIds :
        ( /\ r1 # r2
          /\ fetch_start[r1] # None
          /\ fetch_start[r2] # None
          /\ fetch_start[r1] <= fetch_start[r2]
          /\ req[r1].url = req[r2].url
          /\ IsStrict(req[r1].url) )
        => fetch_start[r2] >= fetch_start[r1] + StrictDelay

\* The handler of r stands between its reading of rate_limits and its
\* update of it.
InGate(r) == pc[r] \in {"sleep", "record"}

\* C2 amended: of two conversions on the same strict-tier archive domain,
\* also when fired concurrently, the later one starts fetching no earlier
\* than the minimum delay after the timestamp the earlier one's gate call
\* recorded, and no two requests are ever inside the gate together (so no
\* two read the same stale or absent entry).
C2_FetchAfterRecordedTimestamp ==
    /\ \A r1, r2 \in ReqIds :
          ( /\ r1 < r2
            /\ gate_ts[r1] # None
            /\ fetch_start[r2] # None
            /\ req[r1].url = req[r2].url
            /\ IsStrict(req[r1].url) )
          => fetch_start[r2] >= gate_ts[r1] + StrictDelay
    /\ \A r1, r2 \in ReqIds : (InGate(r1) /\ InGate(r2)) => r1 = r2

\* C2 witness: two conversions on archive.ph, the second sent while the
\* first was in flight; the second has slept and has started fetching.
C2_Witness ==
    \E r1, r2 \in ReqIds :
        /\ r1 < r2
        /\ req[r1] = req[r2]
        /\ req[r1].endpoint = "convert"
        /\ IsStrict(req[r1].url)
        /\ concurrent[r2]
        /\ fetch_start[r1] # None
        /\ pc[r2] = "running"
        /\ wait_time[r2] > 0

\* C3: while one request waits inside the gate, a request for another
\* domain that is next in the listen queue can start.
C3_OtherDomainNotHeldUp ==
    \A r, q \in ReqIds :
        ( /\ pc[r] = "sleep"
          /\ now < wake_at[r]
          /\ pc[q] = "queued"
          /\ Netloc(req[q].url) # Netloc(req[r].url)
          /\ \A p \in ReqIds : p < q => pc[p] # "queued" )
        => ENABLED Accept(q)

\* C20: every gate call on an archive URL ends by setting
\* rate_limits[domain] to the current time, whether or not it waited; an
\* entry is created by the first call for a domain, overwritten by every
\* later one and never removed: the set of tracked domains only grows
\* and, the clock never going back, no domain's timestamp decreases.
C20_GateAlwaysRecords ==
    [][ /\ \A r \in ReqIds :
              (InGate(r) /\ pc'[r] = "processed")
                  => /\ Netloc(req[r].url) \in DOMAIN rate_limits'
                     /\ rate_limits'[Netloc(req[r].url)] = now'
        /\ now' >= now
        /\ DOMAIN rate_limits \subseteq DOMAIN rate_limits'
        /\ \A d \in DOMAIN rate_limits : rate_limits'[d] >= rate_limits[d] ]_vars

\* C20 witness: two domains are tracked; a call that did not wait created
\* the entry of one, and a later call that waited has just overwritten it
\* with the current time.
C20_Witness ==
    \E r1, r2 \in ReqIds :
        /\ r1 < r2
        /\ req[r1].url = req[r2].url
        /\ GateDone(r1)
        /\ pc[r2] = "processed"
        /\ wait_time[r2] > 0
        /\ gate_ts[r2] = now
        /\ rate_limits[Netloc(req[r2].url)] = now
        /\ gate_ts[r1] < now
        /\ Cardinality(DOMAIN rate_limits) >= 2

----------------------------------------------------------------------------
\* Claims about the URL classifier (specification SpecUrl).

\* The host matches an archive domain / a paywall domain.
MatchesArchive(u) == \E d \in archive_domains : Contains(Lower(u.host), d)
MatchesPaywall(u) == \E d \in paywall_domains : Contains(Lower(u.host), d)

\* C7: every URL is classified as exactly one of archive, paywall-flagged
\* or ordinary: the two flags reported for it are never both set, the
\* branch process_url_with_archives takes agrees with the flags, and a URL
\* whose host matches both an archive and a paywall domain is classified
\* as archive only, with paywall_detected false.
C7_ClassificationExclusive ==
    url_pc = "done" =>
        /\ classification.branch \in {"archive", "paywall", "ordinary"}
        /\ ~(classification.archive_used /\ classification.paywall_detected)
        /\ classification.archive_used <=> classification.branch = "archive"
        /\ classification.paywall_detected <=> classification.branch = "paywall"
        /\ (url.has_scheme /\ MatchesArchive(url) /\ MatchesPaywall(url))
              => /\ classification.branch = "archive"
                 /\ classification.archive_used
                 /\ ~classification.paywall_detected

\* C7 witness: a classified URL whose host matches both lists.
C7_Witness ==
    /\ url_pc = "done"
    /\ url.has_scheme
    /\ MatchesArchive(url)
    /\ MatchesPaywall(url)
    /\ classification.branch = "archive"

----------------------------------------------------------------------------
\* Claims about the error classifier (specification SpecErr).

Taxonomy ==
    { "network_error", "paywall_error", "content_error", "rate_limit_error",
      "access_error", "not_found_error", "audio_error", "unknown_error" }

\* The kinds in their order of precedence, each with its terms.
KindOrder ==
    << "network_error", "paywall_error", "content_error", "rate_limit_error",
       "access_error", "not_found_error", "audio_error" >>

TermsOf(kind) ==
    CASE kind = "network_error" -> network_terms
      [] kind = "paywall_error" -> paywall_terms
      [] kind = "content_error" -> content_terms
      [] kind = "rate_limit_error" -> rate_limit_terms
      [] kind = "access_error" -> access_terms
      [] kind = "not_found_error" -> not_found_terms
      [] kind = "audio_error" -> audio_terms

\* A term of the kind occurs in the text, in whatever letter case.
Mentions(msg, kind) ==
    \E t \in TermsOf(kind) :
        \E i \in 0..(Len(msg) - Len(t)) :
            \A j \in 1..Len(t) : LowerToken(msg[i + j]) = t[j]

MentionsNone(msg) == \A k \in 1..Len(KindOrder) : ~Mentions(msg, KindOrder[k])

\* C8: categorize_error returns, for every text, one kind of the fixed
\* taxonomy, and unknown_error for every text that holds none of the
\* matched terms.
C8_TotalWithFallback ==
    err_pc = "done" =>
        /\ category.error_type \in Taxonomy
        /\ MentionsNone(error_msg) => category.error_type = "unknown_error"

\* C8 witness: a classified, non-empty text that holds no term.
C8_Witness ==
    /\ err_pc = "done"
    /\ error_msg # <<>>
    /\ MentionsNone(error_msg)
    /\ category.error_type = "unknown_error"

\* C9: the kind returned is the earliest kind, in the order network,
\* paywall, content, rate limit, access, not found, audio, of which the
\* text holds a term, whatever the letter case and the position of the
\* terms; unknown_error only when it holds none.
C9_FirstMatchWins ==
    err_pc = "done" =>
        /\ \A k \in 1..Len(KindOrder) :
              ( /\ Mentions(error_msg, KindOrder[k])
                /\ \A j \in 1..(k - 1) : ~Mentions(error_msg, KindOrder[j]) )
              => category.error_type = KindOrder[k]
        /\ category.error_type = "unknown_error" => MentionsNone(error_msg)

\* C9 witness: a text with terms of two kinds, the later kind's term
\* first and the earlier kind's term capitalised, classified as the
\* earlier kind.
C9_Witness ==
    /\ err_pc = "done"
    /\ Len(error_msg) >= 2
    /\ error_msg[1] = "audio"
    /\ error_msg[2] = "PAYWALL"
    /\ category.error_type = "paywall_error"

----------------------------------------------------------------------------
\* Claims about POST /convert (specification SpecConv).

\* The conversion of the last request failed: it was run and did not
\* report success, or an exception ended the request.
ConversionFailed ==
    \/ RunsConversion(post) /\ response.success # TRUE
    \/ post.kind = "no_length"

\* C10: every failed conversion is reported with success false, an
\* errorKind of the fixed taxonomy, a user message and a non-empty list of
\* suggestions.
C10_FailureIsStructured ==
    ConversionFailed =>
        /\ response.success = FALSE
        /\ response.error_type \in Taxonomy
        /\ response.user_message # Absent
        /\ response.suggestions # <<>>

\* The conversion of the last request failed with a paywall-flavoured
\* error: the converter ended with an error text that names a paywall term.
PaywallFailure ==
    /\ RunsConversion(post)
    /\ cli.kind = "failed"
    /\ Mentions(cli.message, "paywall_error")

\* An alternate URL: an archive or bypass template with u substituted in.
IsAlternateUrl(s, u) == Len(s) = 2 /\ s[2] = u

\* C11: a conversion of a source URL that fails with a paywall-flavoured
\* error is reported with success false, errorKind paywall_error and a
\* non-empty suggestions list that holds at least one alternate URL built
\* from the original URL.
C11_PaywallFailureSuggestsAlternates ==
    PaywallFailure =>
        /\ response.success = FALSE
        /\ response.error_type = "paywall_error"
        /\ response.suggestions # <<>>
        /\ \E i \in 1..Len(response.suggestions) :
              IsAlternateUrl(response.suggestions[i], post.url)

----------------------------------------------------------------------------
\* Claims about convert_article of simple-api.py (specification SpecApi).

\* The conversion ended and reported success.
ApiSucceeded ==
    api_pc = "done" /\ api_result.status = 200 /\ api_result.success = TRUE

\* The speech covers the whole content.
CoversContent(speech, c) == speech.from = 1 /\ speech.to = ContentLen(c)

\* C12: for a long text split into three or more segments, the final
\* audio artifact of a successful conversion holds the audio of every
\* segment in order (it is larger than any one segment's audio); it is
\* never the audio of the first segment alone.
C12_ArtifactHoldsEverySegment ==
    (ApiSucceeded /\ Len(api_chunks) >= 3 /\ ~timed_out) =>
        /\ CoversContent(audio_file, api_req.content)
        /\ \A i \in 1..Len(api_chunks) :
              Size(audio_file) > Size(ChunkSpeech(api_req.content, api_chunks[i]))
        /\ audio_file # ChunkSpeech(api_req.content, api_chunks[1])

RECURSIVE WordsOf(_)
\* The number of whitespace-separated words of a content.
WordsOf(c) == IF c = <<>> THEN 0 ELSE Head(c).words + WordsOf(Tail(c))

\* C13: a conversion whose content was supplied as raw text and whose
\* synthesis succeeds returns success true with wordCount equal to the
\* number of words of the full content, and the audio artifact it refers
\* to exists and is non-empty; success is never reported without an
\* artifact.
C13_RawTextSuccessHasArtifact ==
    /\ (api_pc = "done" /\ api_req.type = "text" /\ last_synth = "ok") =>
          /\ ApiSucceeded
          /\ api_result.wordCount = WordsOf(api_req.content)
    /\ ApiSucceeded => (api_result.audioUrl /\ Size(audio_file) > 0)

\* C13 witness: raw text of several sentences, short enough to be
\* synthesized in one call, converted with success.
C13_Witness ==
    /\ ApiSucceeded
    /\ api_req.type = "text"
    /\ Len(api_req.content) >= 2
    /\ api_chunks = <<>>
    /\ ~timed_out
    /\ audio_file = WholeSpeech(api_req.content)
    /\ api_result.wordCount > 3

\* C14: after a conversion has ended, on whatever path (success, failed
\* synthesis of a segment, timeout), no per-segment temporary audio file
\* of the request is left on disk.
C14_NoChunkFileLeft ==
    api_pc = "done" => chunk_files = {}

\* C15: a conversion that hit its synthesis timeout produces no partial
\* artifact: it does not report success with audio that covers only a part
\* of the content.
C15_NoPartialArtifactAfterTimeout ==
    (ApiSucceeded /\ timed_out) => CoversContent(audio_file, api_req.content)

\* C17: every conversion request that was taken up ends (Done or Failed),
\* also when the speech service never answers: each wait is bounded by a
\* timeout.  Checked under SpecApiFair.
C17_EveryRequestEnds ==
    (api_pc \in {"synth", "fallback"}) ~> (api_pc = "done")

----------------------------------------------------------------------------
\* Claims about the data lake (specification SpecLake).

\* The last request was a conversion whose synthesis succeeded and whose
\* persistence was attempted and failed: the upload raised, or the insert
\* raised or returned no row.
PersistenceFailed ==
    /\ lake_req.kind = "convert"
    /\ lake_req.outcome.synth = "ok"
    /\ supabase
    /\ CASE lake_req.server = "server" ->
               lake_req.outcome.upload = "raises" \/ lake_req.outcome.insert # "row"
         [] lake_req.server = "cloud" ->
               /\ lake_req.outcome.save
               /\ \/ lake_req.outcome.upload = "raises"
                  \/ lake_req.outcome.insert # "row"
         [] lake_req.server = "api" ->
               lake_req.outcome.save /\ lake_req.outcome.insert # "row"

\* The artifact the response names can be fetched: a data URI holds the
\* audio itself, a local URL needs the file, a storage URL the blob.
Retrievable(resp) ==
    \/ resp.audio_url = "data_uri"
    \/ resp.audio_url = "local_url" /\ resp.file
    \/ resp.audio_url = "storage_url" /\ resp.blob

\* C16: a persistence failure never turns a successful conversion into a
\* failed one: when the synthesis succeeded and the upload or the insert
\* then fails, the conversion is still answered with success and with an
\* artifact that can be retrieved (inline data URI or local audio URL).
C16_PersistenceFailureIsNotFatal ==
    PersistenceFailed =>
        /\ lake_resp.status = 200
        /\ Retrievable(lake_resp)
        /\ lake_resp.audio_url \in {"data_uri", "local_url"}

\* C16 witness: server.py with a client, the upload done and the insert
\* raising; the response carries the data URI.
C16_Witness ==
    /\ PersistenceFailed
    /\ lake_req.server = "server"
    /\ lake_req.outcome.upload = "ok"
    /\ lake_req.outcome.insert = "raises"
    /\ lake_resp.status = 200
    /\ lake_resp.audio_url = "data_uri"

\* C19: a request for an article id that is not in the store is answered
\* with 404, and a conversion request with invalid data with a 4xx status.
C19_MissingArticleIsNotFound ==
    /\ (lake_req.kind = "get" /\ supabase /\ lake_req.id \notin lake_rows)
          => lake_resp.status = 404
    /\ lake_req.kind = "invalid" => lake_resp.status \in 400..499

----------------------------------------------------------------------------
\* Claims about the two speech engines of api-server.py (specification
\* SpecFb).

----------------------------------------------------------------------------
\* Claims about the gate as the two endpoints call it (specification
\* SpecGate).

\* The call that has just returned was for an archive URL: its host, in
\* lower case, holds the name of an archive service.
ArchiveCallReturned ==
    /\ gate_pc = "returned"
    /\ gate_call.url.has_scheme
    /\ MatchesArchive(gate_call.url)

\* The tier minimum delay of a URL's host, in seconds.
TierDelay(u) ==
    IF Contains(Lower(u.host), <<"archive", "ph">>) THEN 45
    ELSE IF Contains(Lower(u.host), <<"web", "archive", "org">>) THEN 10
    ELSE 30

\* The time between the timestamp the call found and the call.
GateElapsed == gate_call.at - gate_call.found

\* C21: for a URL that is not an archive URL (an ordinary domain or a
\* known paywall domain) process_url_with_archives returns the URL
\* unchanged, applies no wait, and leaves the rate_limits map as it was.
C21_NonArchivePassesThrough ==
    [][ ( /\ gate_pc = "ready"
          /\ gate_pc' = "returned"
          /\ ~(gate_call'.url.has_scheme /\ MatchesArchive(gate_call'.url)) )
        => ( /\ gate_call'.returned = gate_call'.url
             /\ gate_call'.wait = 0
             /\ now' = now
             /\ rate_limits' = rate_limits ) ]_vars

\* C21 witness: a call for the paywalled site returned at once while the
\* map held an entry of the strict archive service still inside its
\* delay, and the map has no entry for the paywalled site.
C21_Witness ==
    /\ gate_pc = "returned"
    /\ gate_call.url.host = <<"nytimes", "com">>
    /\ gate_call.returned = gate_call.url
    /\ gate_call.wait = 0
    /\ <<"archive", "ph">> \in DOMAIN rate_limits
    /\ now - rate_limits[<<"archive", "ph">>] < 45
    /\ <<"nytimes", "com">> \notin DOMAIN rate_limits

\* C22: the gate adds a wait if and only if an entry for the domain exists
\* and the time elapsed since its timestamp is less than the domain's tier
\* minimum delay; the first request to a domain, and a request arriving
\* after the minimum delay has passed, are not made to wait.
C22_WaitsIffWithinDelay ==
    ArchiveCallReturned =>
        ( gate_call.wait > 0
          <=> (gate_call.found # None /\ GateElapsed < TierDelay(gate_call.url)) )

\* C22 witness: a call for the strict archive service that found an entry
\* more than 45 s old and was not made to wait.
C22_Witness ==
    /\ ArchiveCallReturned
    /\ gate_call.url.host = <<"archive", "ph">>
    /\ gate_call.found # None
    /\ GateElapsed > 45
    /\ gate_call.wait = 0

\* C23: whenever the gate waits, the wait is the tier minimum delay minus
\* the time elapsed, so it is greater than 0 and at most the tier minimum
\* delay: 45 s for hosts containing archive.ph, 10 s for hosts containing
\* web.archive.org, 30 s for every other archive host.
C23_WaitIsRemainingDelay ==
    (ArchiveCallReturned /\ gate_call.wait > 0) =>
        /\ gate_call.found # None
        /\ gate_call.wait = TierDelay(gate_call.url) - GateElapsed
        /\ gate_call.wait > 0
        /\ gate_call.wait <= TierDelay(gate_call.url)

\* C23 witness: a call for an archive service of the default tier that
\* came 15 s after the last one and waited the other 15 s.
C23_Witness ==
    /\ ArchiveCallReturned
    /\ gate_call.url.host = <<"12ft", "io">>
    /\ gate_call.found # None
    /\ GateElapsed = TickStep
    /\ gate_call.wait = 30 - TickStep

\* C29: GET /test goes through the same gate as POST /convert and shares
\* the rate_limits map with it: a /test call for an archive URL waits like
\* any other call and always records a timestamp for the domain, and a
\* /convert call for the domain that comes within the tier minimum delay
\* after it is delayed by the time that remains.
C29_TestSharesGate ==
    /\ (ArchiveCallReturned /\ gate_call.endpoint = "test") =>
          LET domain == Lower(gate_call.url.host)
          IN  /\ domain \in DOMAIN rate_limits
              /\ rate_limits[domain] = gate_call.at + gate_call.wait
              /\ rate_limits[domain] = now
              /\ recorded_by[domain] = "test"
              /\ (gate_call.found # None
                    /\ GateElapsed < TierDelay(gate_call.url))
                    => gate_call.wait = TierDelay(gate_call.url) - GateElapsed
    /\ ( /\ ArchiveCallReturned
         /\ gate_call.endpoint = "convert"
         /\ gate_call.found_by = "test"
         /\ GateElapsed < TierDelay(gate_call.url) )
          => gate_call.wait = TierDelay(gate_call.url) - GateElapsed

\* C29 witness: a /convert call for the strict archive service that came
\* 15 s after a /test call for it and waited the other 30 s.
C29_Witness ==
    /\ ArchiveCallReturned
    /\ gate_call.endpoint = "convert"
    /\ gate_call.url.host = <<"archive", "ph">>
    /\ gate_call.found_by = "test"
    /\ GateElapsed = TickStep
    /\ gate_call.wait = 45 - TickStep
    /\ recorded_by[<<"archive", "ph">>] = "convert"

----------------------------------------------------------------------------
\* Claims about the synthesis calls of simple-api.py (specification
\* SpecApi).

\* The calls of synth_calls made on chunks, in the order they were begun.
ChunkCalls == SelectSeq(synth_calls, LAMBDA call : call.text = "chunk")

HoldsFirstSegmentOnly ==
    /\ Len(api_chunks) >= 2
    /\ audio_file.from = 1
    /\ audio_file.to = SumChars(api_req.content, api_chunks[1].last) - 2
    /\ audio_file.to < ContentLen(api_req.content)

\* The keys under which a response could tell that the audio is not the
\* whole article.
DegradationKeys == {"truncated", "degraded", "partial", "warning", "warnings"}

\* C25: whenever the returned artifact holds only the first segment's
\* audio of a multi-segment conversion, the result carries a degradation
\* signal that tells it from a complete conversion; such an artifact is
\* never returned as a plain success.
C25_FirstSegmentOnlyIsSignalled ==
    (api_pc = "done" /\ api_result.status = 200 /\ HoldsFirstSegmentOnly) =>
        \/ api_result.success # TRUE
        \/ DOMAIN api_result \cap DegradationKeys # {}

\* C26: there is no retry: within one request the extractor is invoked at
\* most once, no piece of content has its synthesis started twice, and
\* after a synthesis failure or timeout the request is in a terminal state
\* with no synthesis run again, on the same or on shortened content.
C26_NoSecondSynthesis ==
    /\ extract_calls <= 1
    /\ \A i, j \in 1..Len(synth_calls) :
          synth_calls[i] = synth_calls[j] => i = j
    /\ \A i \in 1..Len(synth_calls) : synth_calls[i].text # "truncated"
    /\ (timed_out \/ last_synth = "error") => api_pc = "done"

----------------------------------------------------------------------------
\* Claims about what a conversion stores (specification SpecLake).

\* The last request was a conversion with a valid body.
WasConversion == lake_req.kind = "convert"

\* The last conversion inserted a row.
RowInserted == InsertsRow(lake_req.server, supabase, lake_req.outcome)

\* C27: storage is written only for a conversion whose synthesis succeeded
\* and whose persist flag is set: with the flag false no blob is uploaded
\* and no row is inserted, and a conversion that failed before or during
\* the synthesis uploads and inserts nothing.
C27_PersistsOnlyWhenAsked ==
    ( /\ WasConversion
      /\ (~lake_req.outcome.save \/ lake_req.outcome.synth = "raises") )
        => (~lake_resp.blob /\ ~lake_resp.from_row /\ ~RowInserted)

\* C28: the object store and the row store stay consistent: the audio blob
\* a conversion uploaded has a row that references it, also when the
\* insert failed or returned no data after the upload succeeded.
C28_UploadedBlobHasRow ==
    (WasConversion /\ lake_resp.blob) => RowInserted

----------------------------------------------------------------------------
\* Claims about the classification of a failed converter run
\* (specification SpecConv).

\* The markers run_conversion looks for in the output of the process.
HasRateLimitMarker(msg) ==
    \/ \E i \in 1..(Len(msg) - 1) :
          LowerToken(msg[i]) = "rate" /\ LowerToken(msg[i + 1]) = "limit"
    \/ \E i \in 1..Len(msg) : msg[i] = "429"

HasPaywallMarker(msg) ==
    \E i \in 1..Len(msg) : LowerToken(msg[i]) \in {"paywall", "subscription"}

====
